---- MODULE Spec2Model ----
(***************************************************************************)
(* CrawlPro backend: the HTTP endpoints for projects and tasks with the    *)
(* in-process cron scheduler and the project directories on disk, the git  *)
(* credential endpoints, the node registry and the TaskRun records, the     *)
(* worker's execution of a script and its start, heartbeat and shutdown    *)
(* handlers with the heartbeat keys of the key-value store.                *)
(* Every endpoint is one action (one request, one database session); the   *)
(* git credential creation is split at its two database round trips,       *)
(* because its claim is about requests that run concurrently.              *)
(***************************************************************************)
EXTENDS Integers, Sequences, FiniteSets, TLC

VARIABLES
    projects,   \* cp_projects rows: [id, name, owner_id, package_path]
    tasks,      \* cp_tasks rows: [id, project_id, cron_expression, is_enabled]
    sched,      \* scheduler_service registry: the task ids that hold a job
    disk,       \* PROJECTS_DIR: directory name -> content tag (NoDir: absent)
    nextPid,    \* next surrogate id of cp_projects
    nextTid,    \* next surrogate id of cp_tasks
    uploaded,   \* history: name -> content tag of its last successful upload
    req,        \* the request being answered and its response
    creds,      \* git credential rows: [id, user_id, provider]
    nextCid,    \* next surrogate id of the git credentials
    sess,       \* the concurrent git credential requests, one per session
    nodes,      \* cp_nodes rows
    nextNid,    \* next surrogate id of cp_nodes
    cache,      \* the heartbeat keys of the key-value store, one per hostname
    runs,       \* TaskRun rows
    nextRid,    \* next surrogate id of the TaskRun rows
    now         \* the clock func.now() reads

apiVars == <<projects, tasks, sched, disk, nextPid, nextTid, uploaded>>
credVars == <<creds, nextCid, sess>>
nodeVars == <<nodes, nextNid, cache>>
runVars == <<runs, nextRid>>
vars == <<apiVars, req, credVars, nodeVars, runVars, now>>

\* ------------------------------------------------------------------ bounds
MaxProjects == 2
MaxTasks == 1
MaxCreds == 3
MaxTime == 3
MaxRuns == 2

Users == {"A", "B"}
Names == {"x", "y"}
PidRange == 1..MaxProjects
TidRange == 1..MaxTasks

\* A directory that is not on disk (os.path.exists is False).
NoDir == 0
\* cron_expression is Optional: absent, or a cron string.
NoCron == "none"
Crons == {NoCron, "cron"}

\* ---------------------------------------------------------------- helpers
RECURSIVE SortDesc(_)
\* order_by(created_at.desc()): rows are created in id order
SortDesc(S) ==
    IF S = {} THEN <<>>
    ELSE LET m == CHOOSE r \in S : \A q \in S : q.id <= r.id
         IN <<m>> \o SortDesc(S \ {m})

\* .offset(skip).limit(limit) on an ordered result
Page(s, skip, limit) ==
    SubSeq(s, skip + 1, IF Len(s) < skip + limit THEN Len(s) ELSE skip + limit)

Range(s) == {s[i] : i \in 1..Len(s)}

\* the skip and limit query parameters of the list endpoints (defaults 0, 100)
Pages == {<<0, 100>>, <<1, 1>>}

\* CRUDBase.get for projects and tasks: the set holding the row, or {}
project_get(id) == {p \in projects : p.id = id}
task_get(id) == {t \in tasks : t.id = id}
get_by_name(name) == {p \in projects : p.name = name}

\* scheduler_service: a registry keyed by task id
has_task(s, id) == id \in s
add_task(s, id) == s \cup {id}
remove_task(s, id) == s \ {id}

\* The state a request works on, and what a request hands back.
St == [projects |-> projects, tasks |-> tasks, sched |-> sched, disk |-> disk,
       nextPid |-> nextPid, nextTid |-> nextTid]
Out(status, body, calls, st) ==
    [status |-> status, body |-> body, calls |-> calls, st |-> st]

NoReq == [op |-> "none", user |-> "A", id |-> 0, name |-> "", enable |-> FALSE,
          ip |-> "", status |-> 0, body |-> <<>>, calls |-> <<>>]

\* A request is served when the response of the one before it has been returned.
Idle == req.op = "none"

Respond(op, user, id, name, enable, result) ==
    \E r \in {result} :
        /\ projects' = r.st.projects
        /\ tasks' = r.st.tasks
        /\ sched' = r.st.sched
        /\ disk' = r.st.disk
        /\ nextPid' = r.st.nextPid
        /\ nextTid' = r.st.nextTid
        /\ uploaded' = IF op = "create_project" /\ r.status = 201
                       THEN [uploaded EXCEPT ![name] = r.st.disk[name]]
                       ELSE uploaded
        /\ req' = [op |-> op, user |-> user, id |-> id, name |-> name,
                   enable |-> enable, ip |-> "", status |-> r.status,
                   body |-> r.body, calls |-> r.calls]
        /\ UNCHANGED <<credVars, nodeVars, runVars, now>>

\* The response leaves the server: the request is over.
Return ==
    /\ req.op # "none"
    /\ req' = NoReq
    /\ UNCHANGED <<apiVars, credVars, nodeVars, runVars, now>>

\* ------------------------------------------------------------ tasks.py
\* Faulty variant: the gate without the comparison of the owner
check_task_project_permission_any_user(user, task_id) ==
    IF task_get(task_id) = {} THEN 404
    ELSE LET db_task == CHOOSE t \in task_get(task_id) : TRUE
         IN IF project_get(db_task.project_id) = {} THEN 404 ELSE 0

\* 0: the caller may operate on the task; otherwise the HTTP error
check_task_project_permission(user, task_id) ==
    IF task_get(task_id) = {} THEN 404
    ELSE LET db_task == CHOOSE t \in task_get(task_id) : TRUE
         IN IF project_get(db_task.project_id) = {} THEN 404
            ELSE LET db_project == CHOOSE p \in project_get(db_task.project_id) : TRUE
                 IN IF db_project.owner_id # user THEN 403 ELSE 0

\* fault: "none", "invalid" (crud create raises ValueError), "sched" (add_task raises)
create_task_result(user, project_id, cron, enabled, fault) ==
    IF project_get(project_id) = {} THEN Out(404, <<>>, <<>>, St)
    ELSE LET project == CHOOSE p \in project_get(project_id) : TRUE
         IN IF project.owner_id # user THEN Out(403, <<>>, <<>>, St)
            ELSE IF fault = "invalid" THEN Out(400, <<>>, <<>>, St)
            ELSE LET db_task == [id |-> nextTid, project_id |-> project_id,
                                 cron_expression |-> cron, is_enabled |-> enabled]
                     st1 == [St EXCEPT !.tasks = tasks \cup {db_task},
                                       !.nextTid = nextTid + 1]
                 IN IF db_task.is_enabled /\ db_task.cron_expression # NoCron
                    THEN IF fault = "sched"
                         THEN Out(201, <<db_task>>, <<"add_task">>, st1)
                         ELSE Out(201, <<db_task>>, <<"add_task">>,
                                  [st1 EXCEPT !.sched = add_task(sched, db_task.id)])
                    ELSE Out(201, <<db_task>>, <<>>, st1)

create_task(user, project_id, cron, enabled, fault) ==
    /\ Idle
    /\ \E r \in {create_task_result(user, project_id, cron, enabled, fault)} :
        /\ r.status = 201 => nextTid <= MaxTasks
        /\ Respond("create_task", user, project_id, "", enabled, r)

read_tasks_result(user, skip, limit) ==
    LET project_ids == {p.id : p \in {q \in projects : q.owner_id = user}}
    IN IF project_ids = {} THEN Out(200, <<>>, <<>>, St)
       ELSE Out(200, Page(SortDesc({t \in tasks : t.project_id \in project_ids}),
                          skip, limit), <<>>, St)

read_tasks(user, skip, limit) ==
    /\ Idle
    /\ Respond("read_tasks", user, 0, "", FALSE, read_tasks_result(user, skip, limit))

read_task_result(user, task_id) ==
    LET gate == check_task_project_permission(user, task_id)
    IN IF gate # 0 THEN Out(gate, <<>>, <<>>, St)
       ELSE Out(200, <<CHOOSE t \in task_get(task_id) : TRUE>>, <<>>, St)

read_task(user, task_id) ==
    /\ Idle
    /\ Respond("read_task", user, task_id, "", FALSE, read_task_result(user, task_id))

\* task_in: a field is "unset" (left as it is) or carries the new value
\* fault: "none", "remove" (remove_task raises), "invalid" (crud update raises
\* ValueError), "add" (add_task raises)
update_task_result(user, task_id, cron_in, enabled_in, fault) ==
    LET gate == check_task_project_permission(user, task_id)
    IN IF gate # 0 THEN Out(gate, <<>>, <<>>, St)
       ELSE
       LET db_task == CHOOSE t \in task_get(task_id) : TRUE
           had == has_task(sched, task_id)
           calls1 == IF had THEN <<"remove_task">> ELSE <<>>
           sched1 == IF had THEN remove_task(sched, task_id) ELSE sched
           updated == [db_task EXCEPT
                         !.cron_expression =
                             IF cron_in = "unset" THEN @ ELSE cron_in,
                         !.is_enabled =
                             IF enabled_in = "unset" THEN @ ELSE enabled_in = "on"]
           st2 == [St EXCEPT !.tasks = (tasks \ {db_task}) \cup {updated},
                             !.sched = sched1]
       IN IF had /\ fault = "remove" THEN Out(500, <<>>, calls1, St)
          ELSE IF fault = "invalid"
               THEN Out(400, <<>>, calls1, [St EXCEPT !.sched = sched1])
          ELSE IF updated.is_enabled /\ updated.cron_expression # NoCron
               THEN IF fault = "add"
                    THEN Out(200, <<updated>>, Append(calls1, "add_task"), st2)
                    ELSE Out(200, <<updated>>, Append(calls1, "add_task"),
                             [st2 EXCEPT !.sched = add_task(sched1, task_id)])
          ELSE Out(200, <<updated>>, calls1, st2)

update_task(user, task_id, cron_in, enabled_in, fault) ==
    /\ Idle
    /\ Respond("update_task", user, task_id, "", FALSE,
       update_task_result(user, task_id, cron_in, enabled_in, fault))

\* Faulty variant: the delete that goes on to the row when remove_task raises
delete_task_result_remove_not_fatal(user, task_id, fault) ==
    LET gate == check_task_project_permission(user, task_id)
    IN IF gate # 0 THEN Out(gate, <<>>, <<>>, St)
       ELSE
       LET db_task == CHOOSE t \in task_get(task_id) : TRUE
           had == has_task(sched, task_id)
           calls1 == IF had THEN <<"remove_task">> ELSE <<>>
           sched1 == IF had /\ fault # "remove"
                     THEN remove_task(sched, task_id) ELSE sched
       IN IF fault = "db"
          THEN Out(500, <<>>, calls1, [St EXCEPT !.sched = sched1])
          ELSE Out(200, <<db_task>>, calls1,
                   [St EXCEPT !.tasks = tasks \ {db_task}, !.sched = sched1])

\* fault: "none", "remove" (remove_task raises), "db" (crud remove raises)
delete_task_result(user, task_id, fault) ==
    LET gate == check_task_project_permission(user, task_id)
    IN IF gate # 0 THEN Out(gate, <<>>, <<>>, St)
       ELSE
       LET db_task == CHOOSE t \in task_get(task_id) : TRUE
           had == has_task(sched, task_id)
           calls1 == IF had THEN <<"remove_task">> ELSE <<>>
           sched1 == IF had THEN remove_task(sched, task_id) ELSE sched
       IN IF had /\ fault = "remove" THEN Out(500, <<>>, calls1, St)
          ELSE IF fault = "db"
               THEN Out(500, <<>>, calls1, [St EXCEPT !.sched = sched1])
          ELSE Out(200, <<db_task>>, calls1,
                   [St EXCEPT !.tasks = tasks \ {db_task}, !.sched = sched1])

delete_task(user, task_id, fault) ==
    /\ Idle
    /\ Respond("delete_task", user, task_id, "", FALSE,
       delete_task_result(user, task_id, fault))

\* Faulty variant: the toggle that never takes the early return
toggle_is_noop_never(was_enabled, now_enabled) == FALSE

\* if was_enabled == now_enabled: return db_task
toggle_is_noop(was_enabled, now_enabled) == was_enabled = now_enabled

\* fault: "none", "sched" (add_task or remove_task raises), "db" (toggle_enable raises)
toggle_task_result(user, task_id, enable, fault) ==
    LET gate == check_task_project_permission(user, task_id)
    IN IF gate # 0 THEN Out(gate, <<>>, <<>>, St)
       ELSE
       LET db_task == CHOOSE t \in task_get(task_id) : TRUE
           was_enabled == db_task.is_enabled
           now_enabled == enable
           adds == now_enabled /\ db_task.cron_expression # NoCron
           removes == ~adds /\ was_enabled
           calls1 == IF adds THEN <<"add_task">>
                     ELSE IF removes THEN <<"remove_task">> ELSE <<>>
           sched1 == IF adds THEN add_task(sched, task_id)
                     ELSE IF removes THEN remove_task(sched, task_id) ELSE sched
           toggled == [db_task EXCEPT !.is_enabled = enable]
       IN IF toggle_is_noop(was_enabled, now_enabled)
          THEN Out(200, <<db_task>>, <<>>, St)
          ELSE IF (adds \/ removes) /\ fault = "sched"
               THEN Out(500, <<>>, calls1, St)
          ELSE IF fault = "db"
               THEN Out(500, <<>>, calls1, [St EXCEPT !.sched = sched1])
          ELSE Out(200, <<toggled>>, calls1,
                   [St EXCEPT !.tasks = (tasks \ {db_task}) \cup {toggled},
                              !.sched = sched1])

toggle_task(user, task_id, enable, fault) ==
    /\ Idle
    /\ Respond("toggle_task", user, task_id, "", enable,
       toggle_task_result(user, task_id, enable, fault))

\* --------------------------------------------------------- projects.py
\* Faulty variant: the checks without the one of the directory on disk, the directory
\* being made with exist_ok
create_project_precheck_no_dir(name, fault) ==
    IF fault = "notzip" THEN 400
    ELSE IF get_by_name(name) # {} THEN 400
    ELSE 0

\* steps 1 to 3 of create_project: 0, or the status the request is refused with
create_project_precheck(name, fault) ==
    IF fault = "notzip" THEN 400
    ELSE IF get_by_name(name) # {} THEN 400
    ELSE IF disk[name] # NoDir THEN 400
    ELSE 0

\* fault: "none", "notzip" (the file name does not end in .zip), "badzip"
\* (zipfile.BadZipFile), "io" (another exception while saving or extracting),
\* "db" (crud create raises)
create_project_result(user, name, fault) ==
    IF create_project_precheck(name, fault) # 0
    THEN Out(create_project_precheck(name, fault), <<>>, <<>>, St)
    ELSE LET made == [disk EXCEPT ![name] = nextPid]
             removed == [made EXCEPT ![name] = NoDir]
             created_project == [id |-> nextPid, name |-> name,
                                 owner_id |-> user, package_path |-> name]
         IN IF fault = "badzip"
            THEN Out(400, <<>>, <<>>, [St EXCEPT !.disk = removed])
            ELSE IF fault = "io"
            THEN Out(500, <<>>, <<>>, [St EXCEPT !.disk = removed])
            ELSE IF fault = "db"
            THEN Out(500, <<>>, <<>>, [St EXCEPT !.disk = made])
            ELSE Out(201, <<created_project>>, <<>>,
                     [St EXCEPT !.disk = made,
                                !.projects = projects \cup {created_project},
                                !.nextPid = nextPid + 1])

create_project(user, name, fault) ==
    /\ Idle
    /\ \E r \in {create_project_result(user, name, fault)} :
        /\ r.status = 201 => nextPid <= MaxProjects
        /\ Respond("create_project", user, 0, name, FALSE, r)

\* Faulty variant: the list without the filter on the owner
read_projects_result_all(user, skip, limit) ==
    Out(200, Page(SortDesc(projects), skip, limit), <<>>, St)

read_projects_result(user, skip, limit) ==
    Out(200, Page(SortDesc({p \in projects : p.owner_id = user}), skip, limit),
        <<>>, St)

read_projects(user, skip, limit) ==
    /\ Idle
    /\ Respond("read_projects", user, 0, "", FALSE,
       read_projects_result(user, skip, limit))

read_project_result(user, project_id) ==
    IF project_get(project_id) = {} THEN Out(404, <<>>, <<>>, St)
    ELSE LET db_project == CHOOSE p \in project_get(project_id) : TRUE
         IN IF db_project.owner_id # user THEN Out(403, <<>>, <<>>, St)
            ELSE Out(200, <<db_project>>, <<>>, St)

read_project(user, project_id) ==
    /\ Idle
    /\ Respond("read_project", user, project_id, "", FALSE,
       read_project_result(user, project_id))

\* ProjectUpdate is ProjectBase: the name is a required field of every update
update_project_result(user, project_id, name) ==
    IF project_get(project_id) = {} THEN Out(404, <<>>, <<>>, St)
    ELSE LET db_project == CHOOSE p \in project_get(project_id) : TRUE
             existing == get_by_name(name)
             updated == [db_project EXCEPT !.name = name]
         IN IF db_project.owner_id # user THEN Out(403, <<>>, <<>>, St)
            ELSE IF existing # {} /\ \E e \in existing : e.id # project_id
            THEN Out(400, <<>>, <<>>, St)
            ELSE Out(200, <<updated>>, <<>>,
                     [St EXCEPT !.projects = (projects \ {db_project}) \cup {updated}])

update_project(user, project_id, name) ==
    /\ Idle
    /\ Respond("update_project", user, project_id, name, FALSE,
       update_project_result(user, project_id, name))

\* fault: "none", "rmtree" (shutil.rmtree raises), "db" (crud remove raises)
\* crud_project.remove cascades to the project's tasks; no scheduler call is made
delete_project_result(user, project_id, fault) ==
    IF project_get(project_id) = {} THEN Out(404, <<>>, <<>>, St)
    ELSE LET db_project == CHOOSE p \in project_get(project_id) : TRUE
             on_disk == disk[db_project.package_path] # NoDir
             disk1 == [disk EXCEPT ![db_project.package_path] = NoDir]
         IN IF db_project.owner_id # user THEN Out(403, <<>>, <<>>, St)
            ELSE IF on_disk /\ fault = "rmtree" THEN Out(500, <<>>, <<>>, St)
            ELSE IF fault = "db"
            THEN Out(500, <<>>, <<>>, [St EXCEPT !.disk = disk1])
            ELSE Out(200, <<db_project>>, <<>>,
                     [St EXCEPT !.disk = disk1,
                                !.projects = projects \ {db_project},
                                !.tasks = {t \in tasks : t.project_id # project_id}])

delete_project(user, project_id, fault) ==
    /\ Idle
    /\ Respond("delete_project", user, project_id, "", FALSE,
       delete_project_result(user, project_id, fault))

\* --------------------------------------------- git_credentials.py
Sessions == {"s1", "s2"}
Providers == {"github", "gitlab"}
IdleSession == [pc |-> "idle", user |-> "A", provider |-> "github", status |-> 0]

get_by_user_and_provider(user_id, provider) ==
    {c \in creds : c.user_id = user_id /\ c.provider = provider}

\* CRUD create_with_owner: one INSERT. Whether the table carries a unique
\* constraint on (user_id, provider) is not decided by the code at hand: with
\* one (unique = TRUE) the INSERT of a second row for the pair is refused by
\* the database, without one it is stored.
create_with_owner(provider, owner_id, unique) ==
    IF unique /\ get_by_user_and_provider(owner_id, provider) # {}
    THEN creds
    ELSE creds \cup {[id |-> nextCid, user_id |-> owner_id, provider |-> provider]}

\* the existence check of create_git_credential, in the session of the request
create_git_credential_check(s, user, provider) ==
    /\ sess[s].pc = "idle"
    /\ nextCid + Cardinality({q \in Sessions : sess[q].pc = "insert"}) <= MaxCreds
    /\ sess' = [sess EXCEPT ![s] =
                  IF get_by_user_and_provider(user, provider) # {}
                  THEN [pc |-> "idle", user |-> user, provider |-> provider,
                        status |-> 400]
                  ELSE [pc |-> "insert", user |-> user, provider |-> provider,
                        status |-> 0]]
    /\ UNCHANGED <<creds, nextCid, apiVars, req, nodeVars, runVars, now>>

\* the insert of create_git_credential, after the check has found no row; an
\* INSERT the database refuses is an unhandled exception, answered with 500
create_git_credential_insert(s, unique) ==
    /\ sess[s].pc = "insert"
    /\ creds' = create_with_owner(sess[s].provider, sess[s].user, unique)
    /\ nextCid' = IF creds' # creds THEN nextCid + 1 ELSE nextCid
    /\ sess' = [sess EXCEPT ![s].pc = "idle",
                            ![s].status = IF creds' # creds THEN 200 ELSE 500]
    /\ UNCHANGED <<apiVars, req, nodeVars, runVars, now>>

delete_git_credential(s, user, credential_id) ==
    /\ sess[s].pc = "idle"
    /\ LET cred == {c \in creds : c.id = credential_id}
       IN IF cred = {}
          THEN /\ sess' = [sess EXCEPT ![s].status = 404]
               /\ UNCHANGED creds
          ELSE IF \E c \in cred : c.user_id # user
          THEN /\ sess' = [sess EXCEPT ![s].status = 403]
               /\ UNCHANGED creds
          ELSE /\ sess' = [sess EXCEPT ![s].status = 200]
               /\ creds' = creds \ cred
    /\ UNCHANGED <<nextCid, apiVars, req, nodeVars, runVars, now>>

\* ------------------------------------------------ crud_node.py, nodes.py
Hosts == {"w1", "w2"}
Ips == {"10.0.0.1", "10.0.0.2"}
\* a DateTime column that holds no value
NULL == 0

get_by_hostname(hostname) == {n \in nodes : n.hostname = hostname}

\* Faulty variant: the upsert that inserts without looking the hostname up
register_or_update_always_insert(hostname, ip_address) ==
    nodes \cup {[id |-> nextNid, hostname |-> hostname, ip_address |-> ip_address,
                 status |-> "ONLINE", last_heartbeat |-> NULL,
                 registered_at |-> now]}

\* CRUDNode.register_or_update: the rows after the call
register_or_update(hostname, ip_address) ==
    IF get_by_hostname(hostname) = {}
    THEN nodes \cup {[id |-> nextNid, hostname |-> hostname,
                      ip_address |-> ip_address, status |-> "ONLINE",
                      last_heartbeat |-> NULL, registered_at |-> now]}
    ELSE {IF n.hostname = hostname
          THEN [n EXCEPT !.ip_address = ip_address, !.status = "ONLINE",
                         !.last_heartbeat = now]
          ELSE n : n \in nodes}

\* CRUDNode.heartbeat: UPDATE ... WHERE hostname = :hostname
heartbeat_rows(hostname) ==
    {IF n.hostname = hostname
     THEN [n EXCEPT !.status = "ONLINE", !.last_heartbeat = now]
     ELSE n : n \in nodes}

\* CRUDNode.mark_offline: UPDATE ... WHERE hostname = :hostname
mark_offline(hostname) ==
    {IF n.hostname = hostname THEN [n EXCEPT !.status = "OFFLINE"] ELSE n :
        n \in nodes}

NodeRespond(op, id, name, ip, status, body, rows) ==
    /\ nodes' = rows
    /\ nextNid' = IF Cardinality(rows) > Cardinality(nodes)
                  THEN nextNid + 1 ELSE nextNid
    /\ req' = [op |-> op, user |-> "A", id |-> id, name |-> name,
               enable |-> FALSE, ip |-> ip, status |-> status, body |-> body,
               calls |-> <<>>]
    /\ UNCHANGED <<cache, apiVars, credVars, runVars, now>>

\* POST /nodes/heartbeat
node_heartbeat(hostname, ip) ==
    /\ Idle
    /\ \E rows \in {register_or_update(hostname, ip)} :
          NodeRespond("node_heartbeat", 0, hostname, ip, 200,
                      SortDesc({n \in rows : n.hostname = hostname}), rows)

\* CRUDNode.heartbeat, called with a hostname; the result is rowcount > 0
heartbeat(hostname) ==
    /\ Idle
    /\ NodeRespond("heartbeat", 0, hostname, "",
                   IF get_by_hostname(hostname) # {} THEN 200 ELSE 404, <<>>,
                   heartbeat_rows(hostname))

\* POST /nodes/{node_id}/offline
mark_node_offline(node_id) ==
    /\ Idle
    /\ LET db_node == {n \in nodes : n.id = node_id}
       IN IF db_node = {}
          THEN NodeRespond("mark_node_offline", node_id, "", "", 404, <<>>, nodes)
          ELSE NodeRespond("mark_node_offline", node_id, "", "", 200, <<>>,
                           mark_offline((CHOOSE n \in db_node : TRUE).hostname))

\* time passes between two requests
Tick ==
    /\ Idle
    /\ now < MaxTime
    /\ now' = now + 1
    /\ UNCHANGED <<apiVars, req, credVars, nodeVars, runVars>>

\* ------------------------------------------------- worker_signals.py
\* HEARTBEAT_TTL: the 60 seconds of NODE_HEARTBEAT_TTL, in clock ticks
HEARTBEAT_TTL == 2

\* A key of the store: when it was written and the expiry it was written with
\* (NULL: none). NoKey is a key that was never written or was deleted.
NoKey == [written_at |-> NULL, ex |-> NULL]
redis_set(c, key, ex) == [c EXCEPT ![key] = [written_at |-> now, ex |-> ex]]
redis_delete(c, key) == [c EXCEPT ![key] = NoKey]
\* the store holds the key at time t: it was written and has not expired
KeyPresent(c, key, t) ==
    /\ c[key].written_at # NULL
    /\ c[key].ex = NULL \/ t < c[key].written_at + c[key].ex

\* get_local_ip of the host the worker runs on
local_ip(hostname) == IF hostname = "w1" THEN "10.0.0.1" ELSE "10.0.0.2"

\* The routes of the nodes router, as method and path segments; a segment in
\* braces is a path parameter.
NodeRoutes ==
    {[method |-> "GET", path |-> <<>>, endpoint |-> "read_nodes"],
     [method |-> "GET", path |-> <<"{node_id}">>, endpoint |-> "read_node"],
     [method |-> "POST", path |-> <<"heartbeat">>, endpoint |-> "node_heartbeat"],
     [method |-> "POST", path |-> <<"{node_id}", "offline">>,
      endpoint |-> "mark_node_offline"]}
IsParam(segment) == segment \in {"{node_id}"}
PathMatches(pattern, path) ==
    /\ Len(pattern) = Len(path)
    /\ \A i \in 1..Len(path) : IsParam(pattern[i]) \/ pattern[i] = path[i]
\* the endpoint a request under /api/v1/nodes is routed to, or the status the
\* router answers with: 405 for a path known under another method, 404
Dispatch(method, path) ==
    LET full == {r \in NodeRoutes : r.method = method /\ PathMatches(r.path, path)}
        partial == {r \in NodeRoutes : PathMatches(r.path, path)}
    IN IF full # {}
       THEN [status |-> 0, endpoint |-> (CHOOSE r \in full : TRUE).endpoint]
       ELSE IF partial # {} THEN [status |-> 405, endpoint |-> "none"]
       ELSE [status |-> 404, endpoint |-> "none"]

\* What a handler meets: whether the store can be reached, and how the HTTP
\* call ends: delivered to the central service ("ok"), answered by it with an
\* error ("error_status"), failed to connect ("conn"), timed out ("timeout"),
\* or ended with an exception that is not a requests.RequestException ("other").
HttpOutcomes == {"ok", "error_status", "conn", "timeout", "other"}

WorkerRespond(op, hostname, cache_ok, http, status, raised, calls, rows, store) ==
    /\ nodes' = rows
    /\ nextNid' = IF Cardinality(rows) > Cardinality(nodes)
                  THEN nextNid + 1 ELSE nextNid
    /\ cache' = store
    /\ req' = [op |-> op, user |-> "A", id |-> 0, name |-> hostname,
               enable |-> FALSE, ip |-> local_ip(hostname), status |-> status,
               body |-> <<[cache_ok |-> cache_ok, http |-> http,
                           raised |-> raised]>>,
               calls |-> calls]
    /\ UNCHANGED <<apiVars, credVars, runVars, now>>

\* Faulty variant: the key written with no expiry
heartbeat_key_set_no_expiry(hostname, cache_ok) ==
    IF cache_ok THEN redis_set(cache, hostname, NULL) ELSE cache

\* the store after the set of worker_process_init_handler and
\* heartbeat_sent_handler: any failure is logged and the store is as it was
heartbeat_key_set(hostname, cache_ok) ==
    IF cache_ok THEN redis_set(cache, hostname, HEARTBEAT_TTL) ELSE cache

\* worker_process_init_handler: the key, then POST /api/v1/nodes/heartbeat;
\* only a requests.RequestException of the call is caught
worker_process_init_handler(hostname, cache_ok, http) ==
    /\ Idle
    /\ LET route == Dispatch("POST", <<"heartbeat">>)
           delivered == http = "ok" /\ route.endpoint = "node_heartbeat"
           rows == IF delivered THEN register_or_update(hostname, local_ip(hostname))
                   ELSE nodes
           status == CASE http = "ok" -> (IF delivered THEN 200 ELSE route.status)
                       [] http = "error_status" -> 500
                       [] OTHER -> 0
           raised == IF http = "other" THEN "Exception" ELSE "none"
       IN WorkerRespond("worker_process_init_handler", hostname, cache_ok, http,
                        status, raised, <<"set", "POST /api/v1/nodes/heartbeat">>,
                        rows, heartbeat_key_set(hostname, cache_ok))

\* heartbeat_sent_handler: the key only
heartbeat_sent_handler(hostname, cache_ok) ==
    /\ Idle
    /\ WorkerRespond("heartbeat_sent_handler", hostname, cache_ok, "none", 0,
                     "none", <<"set">>, nodes, heartbeat_key_set(hostname, cache_ok))

\* worker_shutdown_handler: delete the key, then POST /api/v1/nodes/offline with
\* the hostname as form data; every exception of either step is swallowed
worker_shutdown_handler(hostname, cache_ok, http) ==
    /\ Idle
    /\ LET route == Dispatch("POST", <<"offline">>)
           delivered == http = "ok" /\ route.endpoint = "mark_node_offline"
           rows == IF delivered THEN mark_offline(hostname) ELSE nodes
           status == CASE http = "ok" -> (IF delivered THEN 200 ELSE route.status)
                       [] http = "error_status" -> 500
                       [] OTHER -> 0
       IN WorkerRespond("worker_shutdown_handler", hostname, cache_ok, http,
                        status, "none", <<"delete", "POST /api/v1/nodes/offline">>,
                        rows,
                        IF cache_ok THEN redis_delete(cache, hostname) ELSE cache)

\* ------------------------------- crud_task_run.py, crawler_tasks.py
Jobs == {"j1", "j2"}
Workers == {"w1"}
\* the task ids run requests carry
RunTaskIds == {1}
TaskRunStatus == {"PENDING", "RUNNING", "SUCCESS", "FAILURE"}
Logs == {"log1", "log2"}
\* log_output is None
NoLog == "none"

get_by_celery_id(celery_task_id) ==
    {r \in runs : r.celery_task_id = celery_task_id}

\* CRUDTaskRun.start_run: the rows after the INSERT
start_run_rows(task_id, celery_task_id, worker_node) ==
    runs \cup {[id |-> nextRid, task_id |-> task_id,
                celery_task_id |-> celery_task_id, status |-> "RUNNING",
                start_time |-> now, end_time |-> NULL, log_output |-> NoLog,
                worker_node |-> worker_node]}

\* CRUDTaskRun.finish_run: the rows after the call; the status the row has is
\* not looked at
finish_run_rows(celery_task_id, status, log_output) ==
    IF get_by_celery_id(celery_task_id) = {} THEN runs
    ELSE {IF r.celery_task_id = celery_task_id
          THEN [r EXCEPT !.status = status, !.end_time = now,
                         !.log_output = log_output]
          ELSE r : r \in runs}

RunRespond(op, id, name, status, body, calls, rows) ==
    /\ runs' = rows
    /\ nextRid' = IF Cardinality(rows) > Cardinality(runs)
                  THEN nextRid + 1 ELSE nextRid
    /\ req' = [op |-> op, user |-> "A", id |-> id, name |-> name,
               enable |-> FALSE, ip |-> "", status |-> status, body |-> body,
               calls |-> calls]
    /\ UNCHANGED <<apiVars, credVars, nodeVars, now>>

\* the queue job id is unique among the rows: a second INSERT of it is refused
start_run(task_id, celery_task_id, worker_node) ==
    /\ Idle
    /\ IF get_by_celery_id(celery_task_id) # {}
       THEN RunRespond("start_run", task_id, celery_task_id, 500, <<>>,
                       <<"IntegrityError">>, runs)
       ELSE /\ nextRid <= MaxRuns
            /\ \E rows \in {start_run_rows(task_id, celery_task_id, worker_node)} :
                  RunRespond("start_run", task_id, celery_task_id, 200,
                             SortDesc({r \in rows : r.celery_task_id = celery_task_id}),
                             <<>>, rows)

finish_run(celery_task_id, status, log_output) ==
    /\ Idle
    /\ RunRespond("finish_run", 0, celery_task_id, 200, <<>>, <<>>,
                  finish_run_rows(celery_task_id, status, log_output))

\* DELETE /task_runs/{run_id}, for an administrator
delete_task_run(run_id) ==
    /\ Idle
    /\ LET run == {r \in runs : r.id = run_id}
       IN IF run = {}
          THEN RunRespond("delete_task_run", run_id, "", 404, <<>>, <<>>, runs)
          ELSE RunRespond("delete_task_run", run_id, "", 200, SortDesc(run), <<>>,
                          runs \ run)

\* The fields TaskRunCreate declares without a default, and the fields
\* run_generic_script constructs it with.
TaskRunCreateRequired == {"name", "project_id", "spider_name"}
TaskRunCreateGiven == {"task_id", "celery_task_id", "worker_node"}

\* schemas.TaskRunCreate(**given): pydantic raises ValidationError when a
\* required field is missing
TaskRunCreateValid(given) == TaskRunCreateRequired \subseteq given

\* The fields TaskRunUpdate declares without a default, and the fields the
\* three _update_task_run_* helpers construct it with.
TaskRunUpdateRequired == {"task_id", "celery_task_id"}
TaskRunUpdateGiven == {"status", "end_time", "log_output"}
TaskRunUpdateValid(given) == TaskRunUpdateRequired \subseteq given

\* _build_command: the extensions it knows, after filename.lower()
SupportedExts == {"py", "sh", "js", "ts", "php", "rb"}
lower(ext) == IF ext = "PY" THEN "py" ELSE ext
Interpreter(ext) ==
    CASE ext = "py" -> "python" [] ext = "sh" -> "bash" [] ext = "js" -> "node"
      [] ext = "ts" -> "ts-node" [] ext = "php" -> "php" [] ext = "rb" -> "ruby"
build_command(ext) ==
    IF lower(ext) \in SupportedExts
    THEN [error |-> "none", command |-> <<Interpreter(lower(ext)), ext>>]
    ELSE [error |-> "ValueError", command |-> <<>>]

\* _read_log_tail: the last LOG_TAIL_LINES lines of the file (1000 in the code,
\* scaled), or the one line "[Log file not available]", written 0, when the
\* file cannot be read. A log file is its lines, numbered from 1.
LOG_TAIL_LINES == 2
MaxLogLines == 3
LogNotAvailable == <<0>>
read_log_tail(log) ==
    IF ~log.readable THEN LogNotAvailable
    ELSE IF Len(log.lines) <= LOG_TAIL_LINES THEN log.lines
    ELSE SubSeq(log.lines, Len(log.lines) - LOG_TAIL_LINES + 1, Len(log.lines))

LogFiles ==
    {[readable |-> FALSE, lines |-> <<>>]}
    \cup {[readable |-> TRUE, lines |-> [i \in 1..n |-> i]] : n \in {1, MaxLogLines}}

\* What an execution meets: the entrypoint's extension, whether the project
\* directory and the entrypoint file exist, a failing system call, how the
\* child ends (exit code 0 or 1 with no cancellation seen, or a cancellation
\* seen while it runs, after which it exits within the 5 seconds of wait or has
\* to be killed), and the log file the child leaves.
ExecBase ==
    [ext |-> "py", dir_exists |-> TRUE, file_exists |-> TRUE, fault |-> "none",
     child |-> "exit0", log |-> [readable |-> TRUE, lines |-> <<1>>]]
ExecInputs ==
    {[ExecBase EXCEPT !.dir_exists = FALSE], [ExecBase EXCEPT !.file_exists = FALSE],
     [ExecBase EXCEPT !.ext = "exe"], [ExecBase EXCEPT !.ext = "PY"],
     [ExecBase EXCEPT !.fault = "makedirs"], [ExecBase EXCEPT !.fault = "popen"]}
    \cup {[ExecBase EXCEPT !.child = c, !.log = l] :
             c \in {"exit0", "exit1", "cancel_term", "cancel_kill"}, l \in LogFiles}

NoUpdate == [status |-> "none", log_output |-> [kind |-> "none"]]
Raised(error, calls) ==
    [error |-> error, result |-> "none", calls |-> calls, update |-> NoUpdate]

\* Steps 2 to 7 of run_generic_script, up to the _update_task_run_* helper the
\* path calls: the exception raised before one is reached, or the outcome to
\* return and the status and log_output the helper is called to record.
script_steps(x) ==
    IF ~x.dir_exists THEN Raised("FileNotFoundError", <<>>)
    ELSE IF ~x.file_exists THEN Raised("FileNotFoundError", <<>>)
    ELSE IF build_command(x.ext).error # "none"
    THEN Raised(build_command(x.ext).error, <<>>)
    ELSE IF x.fault = "makedirs" THEN Raised("OSError", <<"makedirs">>)
    ELSE IF x.fault = "popen"
    THEN Raised("OSError", <<"makedirs", "update_state", "open_log", "Popen">>)
    ELSE LET started == <<"makedirs", "update_state", "open_log", "Popen">>
             tail == read_log_tail(x.log)
         IN CASE x.child = "cancel_term" ->
                   [error |-> "none", result |-> "stopped",
                    calls |-> started \o <<"terminate", "wait">>,
                    update |-> [status |-> "FAILURE",
                                log_output |-> [kind |-> "stopped", lines |-> tail]]]
              [] x.child = "cancel_kill" ->
                   [error |-> "none", result |-> "stopped",
                    calls |-> started \o <<"terminate", "wait", "kill">>,
                    update |-> [status |-> "FAILURE",
                                log_output |-> [kind |-> "stopped", lines |-> tail]]]
              [] x.child = "exit0" ->
                   [error |-> "none", result |-> "success", calls |-> started,
                    update |-> [status |-> "SUCCESS",
                                log_output |-> [kind |-> "tail", lines |-> tail]]]
              [] x.child = "exit1" ->
                   [error |-> "none", result |-> "failure", calls |-> started,
                    update |-> [status |-> "FAILURE",
                                log_output |-> [kind |-> "exit_code", lines |-> <<>>]]]

\* crud.task_run.update(db, db_obj=db_task_run, obj_in=update_data)
task_run_update(rows, db_task_run, update) ==
    {IF r.id = db_task_run.id
     THEN [r EXCEPT !.status = update.status, !.end_time = now,
                    !.log_output = update.log_output]
     ELSE r : r \in rows}

\* The try block from step 2 on, the except handler and the finally clause,
\* for the rows and the db_task_run held (a set: empty for None).
run_generic_script_steps(rows, held, x) ==
    LET s == script_steps(x)
        \* the helper constructs its TaskRunUpdate before it updates the row
        tried ==
            IF s.error # "none" THEN [error |-> s.error, calls |-> s.calls, rows |-> rows]
            ELSE IF ~TaskRunUpdateValid(TaskRunUpdateGiven)
            THEN [error |-> "ValidationError",
                  calls |-> s.calls \o <<"TaskRunUpdate">>, rows |-> rows]
            ELSE [error |-> "none", calls |-> s.calls \o <<"TaskRunUpdate", "update">>,
                  rows |-> task_run_update(rows, CHOOSE r \in held : TRUE, s.update)]
        \* except Exception: _update_task_run_failed if db_task_run, then raise
        handled ==
            IF tried.error = "none" \/ held = {}
            THEN [error |-> tried.error, calls |-> tried.calls, rows |-> tried.rows]
            ELSE IF ~TaskRunUpdateValid(TaskRunUpdateGiven)
            THEN [error |-> "ValidationError",
                  calls |-> tried.calls \o <<"TaskRunUpdate">>, rows |-> tried.rows]
            ELSE [error |-> tried.error,
                  calls |-> tried.calls \o <<"TaskRunUpdate", "update">>,
                  rows |-> task_run_update(tried.rows, CHOOSE r \in held : TRUE,
                              [status |-> "FAILURE",
                               log_output |-> [kind |-> "exception",
                                               lines |-> <<>>]])]
    IN [x |-> x,
        result |-> IF handled.error = "none" THEN s.result ELSE "raise",
        error |-> handled.error,
        first_error |-> tried.error,
        calls |-> handled.calls \o <<"db.close">>,
        rows |-> handled.rows]

ExecRespond(op, id, name, e) ==
    RunRespond(op, id, name, IF e.error = "none" THEN 200 ELSE 500,
               <<[x |-> e.x, result |-> e.result, error |-> e.error,
                  first_error |-> e.first_error]>>,
               e.calls, e.rows)

\* run_generic_script: the TaskRunCreate it constructs is refused, db_task_run is
\* still None in the handler, which records nothing and re-raises; the session
\* is closed.
run_generic_script(original_task_id, celery_task_id, hostname, x) ==
    /\ Idle
    /\ IF ~TaskRunCreateValid(TaskRunCreateGiven)
       THEN ExecRespond("run_generic_script", original_task_id, celery_task_id,
                [x |-> x, result |-> "raise", error |-> "ValidationError",
                 first_error |-> "ValidationError",
                 calls |-> <<"TaskRunCreate", "db.close">>, rows |-> runs])
       ELSE /\ nextRid <= MaxRuns
            /\ get_by_celery_id(celery_task_id) = {}
            /\ \E rows \in {start_run_rows(original_task_id, celery_task_id,
                                           hostname)} :
                  ExecRespond("run_generic_script", original_task_id, celery_task_id,
                      run_generic_script_steps(rows,
                          {r \in rows : r.celery_task_id = celery_task_id}, x))

\* run_generic_script from step 2 on, for an execution that holds the RUNNING
\* TaskRun of its job in db_task_run
run_generic_script_from_step_2(celery_task_id, x) ==
    /\ Idle
    /\ \E db_task_run \in get_by_celery_id(celery_task_id) :
          /\ db_task_run.status = "RUNNING"
          /\ ExecRespond("run_generic_script_from_step_2", db_task_run.task_id,
                 celery_task_id, run_generic_script_steps(runs, {db_task_run}, x))

Init ==
    /\ projects = {}
    /\ tasks = {}
    /\ sched = {}
    /\ disk = [n \in Names |-> NoDir]
    /\ nextPid = 1
    /\ nextTid = 1
    /\ uploaded = [n \in Names |-> NoDir]
    /\ req = NoReq
    /\ creds = {}
    /\ nextCid = 1
    /\ sess = [s \in Sessions |-> IdleSession]
    /\ nodes = {}
    /\ nextNid = 1
    /\ cache = [h \in Hosts |-> NoKey]
    /\ runs = {}
    /\ nextRid = 1
    /\ now = 1

\* The requests the task endpoints are called with. A fault is paired with the
\* payloads that reach the call it fails.
CreateTaskInputs ==
    {<<c, e, "none">> : c \in Crons, e \in BOOLEAN}
        \cup {<<"cron", TRUE, "invalid">>, <<"cron", TRUE, "sched">>}
UpdateTaskInputs ==
    {<<c, e, "none">> : c \in Crons \cup {"unset"}, e \in {"unset", "on", "off"}}
        \cup {<<"unset", "unset", "remove">>, <<NoCron, "off", "remove">>,
              <<"cron", "unset", "invalid">>,
              <<"unset", "unset", "add">>, <<"cron", "on", "add">>}

\* The task endpoints, over projects that are uploaded, listed and deleted.
NextTasks ==
    \/ \E u \in Users, p \in PidRange, i \in CreateTaskInputs :
          create_task(u, p, i[1], i[2], i[3])
    \/ \E u \in Users, pg \in Pages : read_tasks(u, pg[1], pg[2])
    \/ \E u \in Users, t \in TidRange : read_task(u, t)
    \/ \E u \in Users, t \in TidRange, i \in UpdateTaskInputs :
          update_task(u, t, i[1], i[2], i[3])
    \/ \E u \in Users, t \in TidRange, f \in {"none", "remove", "db"} :
          delete_task(u, t, f)
    \/ \E u \in Users, t \in TidRange, e \in BOOLEAN,
          f \in {"none", "sched", "db"} : toggle_task(u, t, e, f)
    \/ \E u \in Users, n \in Names :
          create_project(u, n, "none")
    \/ \E u \in Users, pg \in Pages : read_projects(u, pg[1], pg[2])
    \/ \E u \in Users, p \in PidRange : delete_project(u, p, "none")
    \/ Return

SpecTasks == Init /\ [][NextTasks]_vars

\* The project endpoints with every failure of the upload, the disk and the
\* database.
NextProjects ==
    \/ \E u \in Users, n \in Names,
          f \in {"none", "notzip", "badzip", "io", "db"} : create_project(u, n, f)
    \/ \E u \in Users, pg \in Pages : read_projects(u, pg[1], pg[2])
    \/ \E u \in Users, p \in PidRange : read_project(u, p)
    \/ \E u \in Users, p \in PidRange, n \in Names : update_project(u, p, n)
    \/ \E u \in Users, p \in PidRange, f \in {"none", "rmtree", "db"} :
          delete_project(u, p, f)
    \/ Return

SpecProjects == Init /\ [][NextProjects]_vars

NextCreds ==
    \/ \E s \in Sessions, u \in Users, pr \in Providers :
          create_git_credential_check(s, u, pr)
    \/ \E s \in Sessions, unique \in BOOLEAN : create_git_credential_insert(s, unique)
    \/ \E s \in Sessions, u \in Users, c \in 1..MaxCreds :
          delete_git_credential(s, u, c)

SpecCreds == Init /\ [][NextCreds]_vars

NextNodes ==
    \/ \E h \in Hosts, ip \in Ips : node_heartbeat(h, ip)
    \/ \E h \in Hosts : heartbeat(h)
    \/ \E n \in 1..Cardinality(Hosts) : mark_node_offline(n)
    \/ Tick
    \/ Return

SpecNodes == Init /\ [][NextNodes]_vars

NextWorker ==
    \/ \E h \in Hosts, ok \in BOOLEAN, http \in HttpOutcomes :
          worker_process_init_handler(h, ok, http)
    \/ \E h \in Hosts, ok \in BOOLEAN : heartbeat_sent_handler(h, ok)
    \/ \E h \in Hosts, ok \in BOOLEAN, http \in HttpOutcomes :
          worker_shutdown_handler(h, ok, http)
    \/ Tick
    \/ Return

SpecWorker == Init /\ [][NextWorker]_vars

NextRuns ==
    \/ \E t \in RunTaskIds, j \in Jobs, w \in Workers : start_run(t, j, w)
    \/ \E j \in Jobs, st \in TaskRunStatus, l \in Logs \cup {NoLog} :
          finish_run(j, st, l)
    \/ \E r \in 1..MaxRuns : delete_task_run(r)
    \/ \E t \in RunTaskIds, j \in Jobs, w \in Workers, x \in ExecInputs :
          run_generic_script(t, j, w, x)
    \/ \E j \in Jobs, x \in ExecInputs : run_generic_script_from_step_2(j, x)
    \/ Tick
    \/ Return

SpecRuns == Init /\ [][NextRuns]_vars

Next == NextTasks \/ NextProjects \/ NextCreds \/ NextNodes \/ NextWorker \/ NextRuns

Spec == Init /\ [][Next]_vars
\* ------------------------------------------------------------------ claims
\* The step of a request: the server is idle before it and req' is its record.
owner_of(task_id) ==
    {p.owner_id : p \in {q \in projects :
                           \E t \in tasks : t.id = task_id /\ t.project_id = q.id}}

GatedOps == {"read_task", "update_task", "delete_task", "toggle_task"}

\* C1: a user who does not own the parent project of an existing task gets 403
\* from read_task, update_task, delete_task and toggle_task, no scheduler call is
\* made, and the task rows and the scheduler registrations stay as they were.
C1_OwnershipGate ==
    [][(Idle /\ req'.op \in GatedOps /\ owner_of(req'.id) # {}
             /\ req'.user \notin owner_of(req'.id))
        => (req'.status = 403 /\ req'.calls = <<>>
            /\ tasks' = tasks /\ sched' = sched /\ projects' = projects)]_vars

\* C1 witness: a stranger's delete of a task that holds a scheduler job was refused
C1_Witness ==
    /\ req.op = "delete_task" /\ req.status = 403
    /\ owner_of(req.id) # {} /\ req.user \notin owner_of(req.id)
    /\ req.id \in sched

\* C2: every task that is enabled and has a cron expression holds a scheduler
\* registration, whatever the outcome of the requests so far.
C2_EnabledCronRegistered ==
    \A t \in tasks :
        (t.is_enabled /\ t.cron_expression # NoCron) => has_task(sched, t.id)

\* C3: the scheduler holds no registration for a task whose row is gone.
C3_NoOrphanRegistration ==
    \A id \in sched : task_get(id) # {}

\* C4: a toggle by the owner to the state the task is in makes no scheduler call,
\* leaves the rows and the scheduler as they were and returns the task as it was.
C4_ToggleNoop ==
    [][(Idle /\ req'.op = "toggle_task" /\ req'.user \in owner_of(req'.id)
             /\ \E t \in task_get(req'.id) : t.is_enabled = req'.enable)
        => (req'.status = 200 /\ req'.calls = <<>>
            /\ tasks' = tasks /\ sched' = sched
            /\ \E t \in task_get(req'.id) : req'.body = <<t>>)]_vars

\* C4 witness: the owner switched on a task with a cron expression that was on
C4_Witness ==
    /\ req.op = "toggle_task" /\ req.status = 200 /\ req.enable
    /\ req.user \in owner_of(req.id)
    /\ req.calls = <<>>
    /\ \E t \in task_get(req.id) : t.is_enabled /\ t.cron_expression # NoCron

\* C5: a POST /projects that ends with an error leaves no directory of its own
\* making on disk and inserts no row.
C5_FailedCreateLeavesNothing ==
    [][(Idle /\ req'.op = "create_project" /\ req'.status >= 400)
        => (projects' = projects
            /\ (disk[req'.name] = NoDir => disk'[req'.name] = NoDir))]_vars

\* C6 as claimed: once a name has been uploaded, every later upload of it gets
\* 400, inserts no row and finds and leaves the directory of the first upload.
C6_EveryLaterUploadFails ==
    [][(Idle /\ req'.op = "create_project" /\ uploaded[req'.name] # NoDir)
        => (req'.status = 400 /\ projects' = projects
            /\ disk[req'.name] = uploaded[req'.name] /\ disk' = disk)]_vars

\* C6 as amended: once a name has been uploaded, and while the directory that
\* upload extracted is on disk, every later upload of the name gets 400, inserts
\* no row and leaves the directory and its content as they were.
C6_LaterUploadFailsWhileDirectoryStands ==
    [][(Idle /\ req'.op = "create_project" /\ uploaded[req'.name] # NoDir
             /\ disk[req'.name] = uploaded[req'.name])
        => (req'.status = 400 /\ projects' = projects /\ disk' = disk
            /\ disk'[req'.name] = uploaded'[req'.name])]_vars

\* C6 witness: a second upload of a name was refused and its directory stands
C6_Witness ==
    /\ req.op = "create_project" /\ req.status = 400
    /\ uploaded[req.name] # NoDir /\ disk[req.name] = uploaded[req.name]

\* C7: read_projects returns only rows the caller owns; read_tasks returns only
\* tasks of projects the caller owns, and nothing when the caller owns none.
C7_CrossUserIsolation ==
    [][Idle =>
        /\ req'.op = "read_projects" =>
              \A p \in Range(req'.body) : p \in projects /\ p.owner_id = req'.user
        /\ req'.op = "read_tasks" =>
              /\ \A t \in Range(req'.body) :
                    t \in tasks /\ owner_of(t.id) = {req'.user}
              /\ (\A p \in projects : p.owner_id # req'.user) => req'.body = <<>>]_vars

\* C7 witness: a user listed their projects while another user owned one too
C7_Witness ==
    /\ req.op = "read_projects" /\ req.body # <<>>
    /\ \E p \in projects : p.owner_id # req.user
\* C8: at most one git credential row exists for each (user_id, provider), and
\* every create request that has been answered was answered with success or
\* with 400 (no create ends in an unhandled database error).
C8_OneCredentialPerProvider ==
    /\ \A c1 \in creds : \A c2 \in creds :
          (c1.user_id = c2.user_id /\ c1.provider = c2.provider) => c1 = c2
    /\ \A s \in Sessions : sess[s].status # 500

\* C9: there is at most one row per hostname; a heartbeat for an unknown
\* hostname inserts one ONLINE row with the supplied ip; a heartbeat for a known
\* hostname inserts nothing and sets the ip, ONLINE and last_heartbeat = now on
\* the row of that hostname, whatever its status was, leaving the other rows.
C9_NodeUpsert ==
    [][/\ \A n1 \in nodes' : \A n2 \in nodes' :
             n1.hostname = n2.hostname => n1 = n2
       /\ (Idle /\ req'.op = "node_heartbeat") =>
             IF get_by_hostname(req'.name) = {}
             THEN \E n \in nodes' :
                     /\ nodes' = nodes \cup {n} /\ n \notin nodes
                     /\ n.hostname = req'.name /\ n.ip_address = req'.ip
                     /\ n.status = "ONLINE"
                     /\ req'.body = <<n>>
             ELSE \E old \in get_by_hostname(req'.name) :
                     LET new == [old EXCEPT !.ip_address = req'.ip,
                                            !.status = "ONLINE",
                                            !.last_heartbeat = now]
                     IN /\ nodes' = (nodes \ {old}) \cup {new}
                        /\ Cardinality(nodes') = Cardinality(nodes)
                        /\ req'.body = <<new>>]_vars

\* C9 witness: a later heartbeat came from another ip at a later time and the
\* hostname still has its one row, ONLINE
C9_Witness ==
    /\ req.op = "node_heartbeat" /\ Len(req.body) = 1
    /\ req.body[1].last_heartbeat = now
    /\ req.body[1].registered_at < now
    /\ req.body[1].ip_address = req.ip /\ req.body[1].status = "ONLINE"
    /\ Cardinality(get_by_hostname(req.name)) = 1
    /\ \E n \in nodes : n.hostname # req.name /\ n.status = "OFFLINE"

\* C10: a TaskRun that has reached SUCCESS or FAILURE keeps its status, end_time
\* and log_output in every later step.
C10_TerminalRunFrozen ==
    [][\A r \in runs :
          r.status \in {"SUCCESS", "FAILURE"} =>
              \A q \in runs' :
                  q.id = r.id => (/\ q.status = r.status
                                  /\ q.end_time = r.end_time
                                  /\ q.log_output = r.log_output)]_vars
\* The step of an execution of run_generic_script: req' is its record, with the
\* job id in name, what the execution met in body[1].x and its calls in calls.
ExecOps == {"run_generic_script", "run_generic_script_from_step_2"}
ChildStarted(r) == \E i \in 1..Len(r.calls) : r.calls[i] = "Popen"
Called(r, c) == \E i \in 1..Len(r.calls) : r.calls[i] = c

C12_UnsupportedEntrypointFails ==
    [][(Idle /\ req'.op \in ExecOps
             /\ lower(req'.body[1].x.ext) \notin SupportedExts
             /\ req'.body[1].x.dir_exists /\ req'.body[1].x.file_exists)
        => (/\ req'.body[1].first_error = "ValueError"
            /\ ~Called(req', "open_log") /\ ~Called(req', "Popen")
            /\ \E r \in runs' :
                  r.celery_task_id = req'.name /\ r.status = "FAILURE")]_vars
\* the execution of req' holds a TaskRun: it inserted the row of its job, or
\* it started from the row
HoldsTaskRun ==
    \/ req'.op = "run_generic_script_from_step_2"
    \/ /\ req'.op = "run_generic_script"
       /\ get_by_celery_id(req'.name) = {}
       /\ \E r \in runs' : r.celery_task_id = req'.name

C18_RunRecordedBeforeChild ==
    [][(Idle /\ req'.op = "run_generic_script")
        => \E r \in runs' :
              /\ \A q \in runs : q.id # r.id
              /\ r.celery_task_id = req'.name
              /\ r.status \in {"RUNNING", "SUCCESS", "FAILURE"}
              /\ r.worker_node \in Workers /\ r.start_time # NULL]_vars
\* C15: when remove_task raises in update_task or delete_task, the request is
\* answered with 500 and the task rows are as they were; update_task makes no
\* add_task call and delete_task keeps the row.
C15_RemoveFailureIsFatal ==
    [][\A u \in Users, t \in TidRange :
          (has_task(sched, t) /\ check_task_project_permission(u, t) = 0) =>
              /\ \A i \in UpdateTaskInputs :
                    (i[3] = "remove" /\ update_task(u, t, i[1], i[2], i[3])) =>
                        (/\ req'.status = 500 /\ tasks' = tasks
                         /\ req'.calls = <<"remove_task">>)
              /\ delete_task(u, t, "remove") =>
                    (/\ req'.status = 500 /\ tasks' = tasks
                     /\ task_get(t) # {}
                     /\ req'.calls = <<"remove_task">>)]_vars

\* C15 witness: a delete of a registered, enabled task was answered 500 after
\* its remove_task call, and the row and the registration are still there
C15_Witness ==
    /\ req.op = "delete_task" /\ req.status = 500
    /\ req.calls = <<"remove_task">>
    /\ has_task(sched, req.id)
    /\ \E t \in task_get(req.id) : t.is_enabled /\ t.cron_expression # NoCron
\* C16: when a worker whose hostname has a Node row shuts down with the store
\* and the central service reachable, the heartbeat key of the hostname is
\* deleted and the Node row of the hostname is OFFLINE afterwards.
C16_ShutdownMarksOffline ==
    [][(Idle /\ req'.op = "worker_shutdown_handler" /\ req'.body[1].cache_ok
             /\ req'.body[1].http = "ok" /\ get_by_hostname(req'.name) # {})
        => (/\ ~KeyPresent(cache', req'.name, now')
            /\ req'.status = 200
            /\ \A n \in nodes' : n.hostname = req'.name => n.status = "OFFLINE")]_vars

\* C17: worker_process_init_handler and worker_shutdown_handler end without
\* raising, whatever the store and the HTTP call do.
C17_HandlersNeverRaise ==
    [][(Idle /\ req'.op \in {"worker_process_init_handler", "worker_shutdown_handler"})
        => req'.body[1].raised = "none"]_vars

\* C19: a key the store holds was written less than one TTL ago; a heartbeat
\* tick that reaches the store writes the key afresh with the full TTL, one that
\* does not leaves the store as it was; and a key written less than one TTL ago
\* is still held unless the step is a shutdown that deleted it.
C19_HeartbeatKeyExpires ==
    [][/\ \A h \in Hosts :
             /\ KeyPresent(cache', h, now') => now' < cache'[h].written_at + HEARTBEAT_TTL
             /\ (/\ cache[h].written_at # NULL
                 /\ now' < cache[h].written_at + HEARTBEAT_TTL
                 /\ ~(req'.op = "worker_shutdown_handler" /\ req'.name = h))
                => KeyPresent(cache', h, now')
       /\ (Idle /\ req'.op = "heartbeat_sent_handler") =>
             IF req'.body[1].cache_ok
             THEN /\ cache' = [cache EXCEPT ![req'.name] =
                                  [written_at |-> now, ex |-> HEARTBEAT_TTL]]
                  /\ KeyPresent(cache', req'.name, now')
             ELSE cache' = cache]_vars

\* C19 witness: a tick has just refreshed the key of one worker while the key
\* of a worker that stopped ticking has expired
C19_Witness ==
    /\ req.op = "heartbeat_sent_handler" /\ req.body[1].cache_ok
    /\ KeyPresent(cache, req.name, now) /\ cache[req.name].written_at = now
    /\ \E h \in Hosts : /\ h # req.name
                        /\ cache[h].written_at # NULL
                        /\ ~KeyPresent(cache, h, now)
\* C20: the package_path directory of every Project row exists on disk.
C20_ProjectRowHasDirectory ==
    \A p \in projects : disk[p.package_path] # NoDir
\* C21: a toggle_task request answered with 500 leaves the task rows and the
\* scheduler registrations as they were before the request.
C21_ToggleAtomicOnFailure ==
    [][(Idle /\ req'.op = "toggle_task" /\ req'.status = 500)
        => (tasks' = tasks /\ sched' = sched)]_vars

\* C22: for every project row the directory of its name is its own
\* package_path, exists on disk, and is the package_path of no other project.
C22_NameResolvesToOwnPackage ==
    \A p \in projects :
        /\ p.package_path = p.name
        /\ disk[p.name] # NoDir
        /\ \A q \in projects : q.package_path = p.name => q.id = p.id

\* C23: every Node row that is ONLINE has a last_heartbeat, and a
\* mark_node_offline step changes nothing but the status of the rows of the
\* node's hostname.
C23_OnlineHasHeartbeat ==
    [][/\ \A n \in nodes' : n.status = "ONLINE" => n.last_heartbeat # NULL
       /\ (Idle /\ req'.op = "mark_node_offline" /\ req'.status = 200) =>
             nodes' = {IF n.id = req'.id THEN [n EXCEPT !.status = "OFFLINE"]
                       ELSE n : n \in nodes}]_vars
====
